---- MODULE Spec2Model ----
(***************************************************************************)
(* calgroup_builder: periodic reconciliation of a Grouper group with the   *)
(* users of a JupyterHub (src/calgroup_builder/__init__.py).               *)
(*                                                                         *)
(* One invocation of sync_users_to_groups is a "run".  GroupBuilder.start  *)
(* schedules one run with loop.add_callback (the startup run) and further  *)
(* runs with a PeriodicCallback (the periodic run, started again and again *)
(* with fresh locals).  A run pages through GET /users with the async      *)
(* generator fetch_paginated, each page fetched through fetch (client.fetch*)
(* behind an asyncio.Semaphore), then handle_user derives the member list  *)
(* and add_members PUTs it to the directory.                               *)
(*                                                                         *)
(* Steps are the event loop's: a coroutine runs without interruption up to *)
(* an await that really suspends.  requests.put is a blocking call, so the *)
(* last page's processing, handle_user and add_members are one step.       *)
(***************************************************************************)
EXTENDS Integers, Sequences, FiniteSets, TLC

\* ------------------------------------------------------------------ bounds

\* Most user records the hub holds.
MaxUsers == 3
\* Most pages the hub splits them into.
MaxPages == 2
\* Longest member list handed to add_members when it is checked on its own.
MaxMembers == 2

\* --------------------------------------------------------- program constants

\* GroupBuilder.concurrency's default.
DefaultConcurrency == 10
\* get_user_info(url, user): required positional parameters.
GetUserInfoParams == 2
\* handle_user's call get_user_info(user): positional arguments passed.
GetUserInfoArgs == 1

\* The concurrency settings explored: unbounded, the smallest cap, the default.
Concurrencies == {0, 1, DefaultConcurrency}

\* The two sources of runs in GroupBuilder.start.
Runs == {"startup", "periodic"}

\* ------------------------------------------------------------------- data

\* Python's str.isalpha / str.isalnum look at these classes of characters.
Letters == {"a", "b", "c", "e", "i", "l", "o", "r"}
Digits == {"1", "2", "3", "4", "5"}

\* A user record of GET /users: name (as its characters) and admin flag;
\* hasAdmin tells whether the record holds the "admin" key at all.
Alice == [name |-> <<"a", "l", "i", "c", "e">>, admin |-> FALSE, hasAdmin |-> TRUE]
Bob == [name |-> <<"b", "o", "b">>, admin |-> TRUE, hasAdmin |-> TRUE]
UserRecords == {Alice, Bob}
\* A record without the "admin" key.
Carol == [name |-> <<"c", "a", "r", "o", "l">>, admin |-> FALSE, hasAdmin |-> FALSE]

Null == 0

\* Response bodies of the hub, after json.loads: a top-level list (pre-2.0
\* hub), or an object with "items" and "_pagination": {"next": ...}; next is
\* null or carries the URL of the following page (here: its index).
\* hasItems and hasNext tell whether an object holds the "items" key and the
\* "_pagination" / "next" keys.
ListBody(items) ==
    [kind |-> "list", items |-> items, next |-> Null, hasItems |-> FALSE, hasNext |-> FALSE]
PageBody(items, next) ==
    [kind |-> "object", items |-> items, next |-> next, hasItems |-> TRUE, hasNext |-> TRUE]
NoBody ==
    [kind |-> "none", items |-> <<>>, next |-> Null, hasItems |-> FALSE, hasNext |-> FALSE]
\* An object with "items" whose pagination metadata holds no "next" key.
PageWithoutNext(items) ==
    [kind |-> "object", items |-> items, next |-> Null, hasItems |-> TRUE, hasNext |-> FALSE]
\* An object without an "items" key (its next pointer may be set).
ObjectWithoutItems(next) ==
    [kind |-> "object", items |-> <<>>, next |-> next, hasItems |-> FALSE, hasNext |-> TRUE]
\* Valid JSON that is neither a list nor an object: a number, a string, null.
ScalarBody ==
    [kind |-> "scalar", items |-> <<>>, next |-> Null, hasItems |-> FALSE, hasNext |-> FALSE]

SeqsUpTo(S, n) == UNION {[1..k -> S] : k \in 0..n}

Range(s) == {s[i] : i \in DOMAIN s}

RECURSIVE SumLen(_)
SumLen(ps) == IF ps = <<>> THEN 0 ELSE Len(Head(ps)) + SumLen(Tail(ps))

RECURSIVE Flatten(_)
Flatten(ps) == IF ps = <<>> THEN <<>> ELSE Head(ps) \o Flatten(Tail(ps))

\* The ways the hub can split at most MaxUsers records into 1..MaxPages pages.
PageSplits ==
    {ps \in UNION {[1..k -> SeqsUpTo(UserRecords, MaxUsers)] : k \in 1..MaxPages} :
        SumLen(ps) <= MaxUsers}

\* A paginated hub: page i points to page i+1, the last page's next is null.
PagedHub(ps) ==
    [i \in 1..Len(ps) |-> PageBody(ps[i], IF i < Len(ps) THEN i + 1 ELSE Null)]

\* What the hub serves, by URL (1 is the seed request's URL).
Hubs ==
    {PagedHub(ps) : ps \in PageSplits}
    \cup {<<ListBody(us)>> : us \in SeqsUpTo(UserRecords, MaxUsers)}

\* Answers that leave the documented shapes.  A list that holds a record
\* without the "admin" key:
ListsWithOddRecord ==
    {<<ListBody(us)>> :
        us \in {x \in SeqsUpTo(UserRecords \cup {Carol}, MaxUsers) : Carol \in Range(x)}}
\* a paginated result whose last page holds no "next" key:
HubsWithoutNext ==
    {[i \in 1..Len(ps) |->
         IF i < Len(ps) THEN PageBody(ps[i], i + 1) ELSE PageWithoutNext(ps[i])] :
        ps \in PageSplits}
\* a paginated result one page of which is an object without "items" (its
\* next pointer kept) or no object at all:
HubsWithBadPage ==
    UNION {UNION {{[PagedHub(ps) EXCEPT ![i] = ObjectWithoutItems(PagedHub(ps)[i].next)],
                   [PagedHub(ps) EXCEPT ![i] = ScalarBody]} :
                  i \in 1..Len(ps)} :
           ps \in PageSplits}

MalformedHubs == ListsWithOddRecord \cup HubsWithoutNext \cup HubsWithBadPage

\* How client.fetch ends: a response, a timeout, a transport/HTTP error.
FetchOutcomes == {"ok", "timeout", "error"}

\* How requests.put / r.json() ends: a plain result, a result with the
\* WsRestResultProblem key, or an exception of requests.
PutOutcomes == {"ok", "problem", "error"}

\* Member identifiers given to add_members: a str or an int.  An int is
\* written by its digits with isInt set.
Str(chars) == [isInt |-> FALSE, chars |-> chars]
IntOf(chars) == [isInt |-> TRUE, chars |-> chars]
Members ==
    { Str(<<"a", "b", "c">>),
      Str(<<"a", "b", "c", "1", "2", "3">>),
      Str(<<"1", "2", "3", "4", "5">>),
      IntOf(<<"1", "2", "3", "4", "5">>),
      Str(<<"a", "@", "b", ".", "c">>),
      Str(<<>>) }

VARIABLES
    concurrency,  \* GroupBuilder.concurrency
    hub,          \* the hub's answers, by URL
    started,      \* loop.start() has run the add_callback callback
    pc,           \* per run: "idle", "paging", "done", "failed"
    err,          \* per run: the exception that ended it, or "none"
    sem,          \* per run: semaphore._value
    fut,          \* per run: resp_future and the fetch behind it
    issued,       \* per run: URLs passed to fetch, in order
    users,        \* per run: users_to_process
    lookups,      \* per run: records for which get_user_info was called
    puts,         \* per run: bodies sent by requests.put
    putResp,      \* per run: what add_members returned ("none" before)
    pagReads,     \* per run: reads of resp_model["_pagination"]
    fetchFailed,  \* per run: some client.fetch of it raised
    trail,        \* per run: the requests submitted and the items yielded, in order
    derived,      \* per run: handle_user's members
    amIn,         \* add_members on its own: (replace_existing, members)
    amOut         \* add_members on its own: the bodies it built

vars ==
    <<concurrency, hub, started, pc, err, sem, fut, issued, users, lookups,
      puts, putResp, pagReads, fetchFailed, trail, derived, amIn, amOut>>

runVars == <<concurrency, hub, started, pc, err, sem, fut, issued, users,
             lookups, puts, putResp, pagReads, fetchFailed, trail, derived>>

\* ------------------------------------------------------- the bounded fetch

\* `if concurrency:`
UseSemaphore(n) == n # 0

\* A slot taken without being counted.
AcquireKeepsValue(v) == v
\* semaphore.acquire() once the value is positive.
Acquire(v) == v - 1

\* A release that is skipped when client.fetch raised (no try/finally).
ReleaseOnSuccessOnly(v, outcome) == IF outcome = "ok" THEN v + 1 ELSE v
\* `finally: semaphore.release()`.
Release(v, outcome) == v + 1

NoFuture == [st |-> "none", url |-> Null, outcome |-> "none", body |-> NoBody]

\* asyncio.ensure_future(fetch(req)): with a semaphore, a task that starts at
\* the loop's next turn; without, client.fetch(req) is called on the spot.
EnsureFuture(url) ==
    [st |-> IF UseSemaphore(concurrency) THEN "scheduled" ELSE "fetching",
     url |-> url, outcome |-> "none", body |-> NoBody]

\* Fetches of run r that execute client.fetch.
Executing(r) == IF fut[r].st = "fetching" THEN 1 ELSE 0

\* ------------------------------------------------------------ fetch_paginated

\* A failed fetch taken for an empty last page.
AwaitSwallows(f) ==
    [raised |-> FALSE, body |-> IF f.outcome = "ok" THEN f.body ELSE ListBody(<<>>)]
\* `response = await resp_future`: the fetch's exception is raised here.
Await(f) == [raised |-> f.outcome # "ok", body |-> f.body]

\* Every body read as a paginated object.
IsListNever(resp) == FALSE
\* isinstance(resp_model, list)
IsList(resp) == resp.kind = "list"

\* The next pointer is never followed.
NextTruthyNever(next) == FALSE
\* `if next_info:`
NextTruthy(next) == next # Null

\* A missing "items" key read as an empty page.
ItemsOrEmpty(resp) ==
    [err |-> "none", items |-> IF resp.hasItems THEN resp.items ELSE <<>>]
\* `items = resp_model["items"]`: KeyError on an object without the key,
\* TypeError on a value that is no object.
ItemsOf(resp) ==
    IF resp.kind = "object"
    THEN IF resp.hasItems
         THEN [err |-> "none", items |-> resp.items]
         ELSE [err |-> "KeyError: items", items |-> <<>>]
    ELSE [err |-> "TypeError", items |-> <<>>]

\* One turn of the while loop up to the yields: the exception raised on the
\* way ("none": none), the items of the page, the next URL (Null: none), and
\* the reads of the pagination metadata.
ParsePage(resp) ==
    IF IsList(resp)
    THEN [err |-> "none", items |-> resp.items, next |-> Null, reads |-> 0]
    ELSE LET it == ItemsOf(resp) IN
         IF it.err # "none"
         THEN [err |-> it.err, items |-> <<>>, next |-> Null, reads |-> 0]
         ELSE IF ~(resp.kind = "object" /\ resp.hasNext)
              THEN [err |-> "KeyError: next", items |-> <<>>, next |-> Null, reads |-> 1]
              ELSE [err |-> "none", items |-> it.items,
                    next |-> IF NextTruthy(resp.next) THEN resp.next ELSE Null,
                    reads |-> 1]

\* The loop taken for an `if`: it ends after its first turn.
LoopEndsAfterOnePage(f) == FALSE
\* `while resp_future is not None:`
LoopContinues(f) == f.st # "none"

SubmitEvent(url) == [e |-> "submit", page |-> url, pos |-> 0]
YieldEvents(url, items) ==
    [j \in 1..Len(items) |-> [e |-> "yield", page |-> url, pos |-> j]]

\* The items yielded first, the next request submitted after them.
PageEventsYieldFirst(url, page) ==
    YieldEvents(url, page.items)
    \o (IF page.next # Null THEN <<SubmitEvent(page.next)>> ELSE <<>>)
\* What one turn of the loop does for page `url`, in program order: the
\* next request is submitted (line 93), then the items are yielded (95-97).
PageEvents(url, page) ==
    (IF page.next # Null THEN <<SubmitEvent(page.next)>> ELSE <<>>)
    \o YieldEvents(url, page.items)

\* ------------------------------------------------------------- handle_user

\* Every record is looked up.
NeedsLookupAlways(user) == TRUE
\* `if not user_is_admin:`
NeedsLookup(user) == ~user.admin

\* Python binds a call's positional arguments to the parameters; too few
\* raise TypeError at the call.
LookupCallBinds == GetUserInfoArgs = GetUserInfoParams

\* What the hub answers to GET {url}/users/{name}: the user model, whose
\* auth_state.oauth_user.login_id is the identifier the directory knows the
\* user by (a number, or a string that need not be the user's name).
DetailOf(user) ==
    [login_id |-> IF user.name = <<"a", "l", "i", "c", "e">>
                  THEN IntOf(<<"1", "2", "3", "4", "5">>)
                  ELSE Str(<<"1", "2", "3", "4", "5">>)]

\* user_data["user_data"]["auth_state"]["oauth_user"]["login_id"]
LoginId(user_data) == user_data.login_id

\* The for loop of handle_user over users_to_process.
RECURSIVE HandleUserLoop(_, _, _)
HandleUserLoop(us, members, looks) ==
    IF us = <<>>
    THEN [members |-> members, lookups |-> looks, err |-> "none"]
    ELSE LET user == Head(us) IN
         IF ~user.hasAdmin
         THEN [members |-> members, lookups |-> looks, err |-> "KeyError: admin"]
         ELSE IF NeedsLookup(user)
         THEN IF LookupCallBinds
              THEN HandleUserLoop(Tail(us), Append(members, LoginId(DetailOf(user))),
                                  Append(looks, user))
              ELSE [members |-> members, lookups |-> Append(looks, user),
                    err |-> "TypeError"]
         ELSE HandleUserLoop(Tail(us), members, looks)

\* -------------------------------------------------------------- add_members

\* boolean_string
boolean_string(b) == IF b THEN "T" ELSE "F"

\* str.isalpha(): non-empty and letters only.
IsAlpha(chars) == Len(chars) > 0 /\ \A i \in 1..Len(chars) : chars[i] \in Letters
\* str.isalnum(): non-empty and letters or digits only.
IsAlnum(chars) ==
    Len(chars) > 0 /\ \A i \in 1..Len(chars) : chars[i] \in Letters \cup Digits

\* The key chosen with isalnum in place of isalpha.
MemberKeyAlnum(member) ==
    IF member.isInt \/ IsAlnum(member.chars) THEN "subjectId" ELSE "subjectIdentifier"
\* `if type(member) == int or member.isalpha():`
MemberKey(member) ==
    IF member.isInt \/ IsAlpha(member.chars) THEN "subjectId" ELSE "subjectIdentifier"

\* The for loop over members: one {member_key: member} appended per member.
RECURSIVE SubjectLookupsFrom(_, _)
SubjectLookupsFrom(members, acc) ==
    IF members = <<>> THEN acc
    ELSE SubjectLookupsFrom(Tail(members),
             Append(acc, [key |-> MemberKey(Head(members)), value |-> Head(members)]))

\* A member already in the list is not appended again.
RECURSIVE SubjectLookupsDedup(_, _)
SubjectLookupsDedup(members, acc) ==
    IF members = <<>> THEN acc
    ELSE SubjectLookupsDedup(Tail(members),
             IF \E i \in 1..Len(acc) : acc[i].value = Head(members)
             THEN acc
             ELSE Append(acc, [key |-> MemberKey(Head(members)), value |-> Head(members)]))

SubjectLookupsUnique(members) == SubjectLookupsDedup(members, <<>>)
SubjectLookups(members) == SubjectLookupsFrom(members, <<>>)

\* data["WsRestAddMemberRequest"]
RequestBody(replace_existing, members) ==
    [replaceAllExisting |-> boolean_string(replace_existing),
     subjectLookups |-> SubjectLookups(members)]

\* add_members from requests.put on: an exception of requests.put or of
\* r.json() leaves add_members; `raise Exception(meta)` for a result that
\* holds WsRestResultProblem sits in a try whose `except Exception` logs it,
\* so that result is returned like any other.
AddMembersResult(putOutcome) ==
    IF putOutcome = "error"
    THEN [raised |-> TRUE, out |-> "none"]
    ELSE [raised |-> FALSE, out |-> putOutcome]

\* handle_user's `except subprocess.CalledProcessError`.
HandleUserCatches(e) == e = "CalledProcessError"

\* ------------------------------------------------------------------ state

Fresh(f, r, v) == [f EXCEPT ![r] = v]

Init ==
    /\ concurrency \in Concurrencies
    /\ hub \in Hubs
    /\ started = FALSE
    /\ pc = [r \in Runs |-> "idle"]
    /\ err = [r \in Runs |-> "none"]
    /\ sem = [r \in Runs |-> 0]
    /\ fut = [r \in Runs |-> NoFuture]
    /\ issued = [r \in Runs |-> <<>>]
    /\ users = [r \in Runs |-> <<>>]
    /\ lookups = [r \in Runs |-> <<>>]
    /\ puts = [r \in Runs |-> <<>>]
    /\ putResp = [r \in Runs |-> "none"]
    /\ pagReads = [r \in Runs |-> 0]
    /\ fetchFailed = [r \in Runs |-> FALSE]
    /\ trail = [r \in Runs |-> <<>>]
    /\ derived = [r \in Runs |-> <<>>]
    /\ amIn = <<TRUE, <<>>>>
    /\ amOut = <<>>

\* sync_users_to_groups is called: the semaphore is made, fetch_paginated
\* makes the seed request's future, and the run suspends at
\* `await resp_future`.
StartRun(r) ==
    /\ pc' = Fresh(pc, r, "paging")
    /\ err' = Fresh(err, r, "none")
    /\ sem' = Fresh(sem, r, IF UseSemaphore(concurrency) THEN concurrency ELSE 0)
    /\ fut' = Fresh(fut, r, EnsureFuture(1))
    /\ issued' = Fresh(issued, r, <<1>>)
    /\ users' = Fresh(users, r, <<>>)
    /\ lookups' = Fresh(lookups, r, <<>>)
    /\ puts' = Fresh(puts, r, <<>>)
    /\ putResp' = Fresh(putResp, r, "none")
    /\ pagReads' = Fresh(pagReads, r, 0)
    /\ fetchFailed' = Fresh(fetchFailed, r, FALSE)
    /\ trail' = Fresh(trail, r, <<SubmitEvent(1)>>)
    /\ derived' = Fresh(derived, r, <<>>)
    /\ UNCHANGED <<concurrency, hub, amIn, amOut>>

\* loop.add_callback(sync_groups): the first run, at the loop's first turn.
StartupCallback ==
    /\ ~started
    /\ started' = TRUE
    /\ StartRun("startup")

\* Variant: a run that raised leaves the timer unarmed.
TimerFiresUnlessFailed ==
    /\ started
    /\ pc["periodic"] \in {"idle", "done"}
    /\ UNCHANGED started
    /\ StartRun("periodic")

\* Variant: the timer's first expiry does not wait for the loop's first turn.
TimerFiresBeforeLoop ==
    /\ pc["periodic"] \in {"idle", "done", "failed"}
    /\ UNCHANGED started
    /\ StartRun("periodic")

\* PeriodicCallback(sync_groups, 1e3 * sync_every): a run at the timer's
\* expiry, whatever the startup run is doing.  The periodic runs are followed
\* one at a time: the next one starts after the previous one has ended.
TimerFires ==
    /\ started
    /\ pc["periodic"] \in {"idle", "done", "failed"}
    /\ UNCHANGED started
    /\ StartRun("periodic")

\* fetch, up to client.fetch: the task takes a slot when one is free.
FetchAcquire(r) ==
    /\ fut[r].st = "scheduled"
    /\ sem[r] > 0
    /\ sem' = [sem EXCEPT ![r] = Acquire(sem[r])]
    /\ fut' = [fut EXCEPT ![r].st = "fetching"]
    /\ UNCHANGED <<concurrency, hub, started, pc, err, issued, users, lookups,
                   puts, putResp, pagReads, fetchFailed, trail, derived, amIn, amOut>>

\* client.fetch ends, and with it fetch: the slot is given back in the
\* finally clause and the future holds the response or the exception.
FetchComplete(r) ==
    /\ fut[r].st = "fetching"
    /\ \E outcome \in FetchOutcomes :
        /\ fut' = [fut EXCEPT ![r] =
                      [st |-> "done", url |-> fut[r].url, outcome |-> outcome,
                       body |-> IF outcome = "ok" THEN hub[fut[r].url] ELSE NoBody]]
        /\ sem' = [sem EXCEPT ![r] =
                      IF UseSemaphore(concurrency) THEN Release(sem[r], outcome) ELSE sem[r]]
        /\ fetchFailed' = [fetchFailed EXCEPT ![r] = fetchFailed[r] \/ outcome # "ok"]
    /\ UNCHANGED <<concurrency, hub, started, pc, err, issued, users, lookups,
                   puts, putResp, pagReads, trail, derived, amIn, amOut>>

\* The run fails with exception e: it leaves sync_users_to_groups.
Fails(r, e) ==
    /\ pc' = [pc EXCEPT ![r] = "failed"]
    /\ err' = [err EXCEPT ![r] = e]

\* The run resumes at `response = await resp_future` and goes on to its next
\* suspension: the following page's await, or the end of the run through
\* handle_user and add_members.
PageStep(r) ==
    /\ pc[r] = "paging"
    /\ fut[r].st = "done"
    /\ LET aw == Await(fut[r]) IN
       IF aw.raised
       THEN /\ Fails(r, fut[r].outcome)
            /\ fut' = [fut EXCEPT ![r] = NoFuture]
            /\ UNCHANGED <<issued, users, lookups, puts, putResp, pagReads,
                           trail, derived>>
       ELSE LET page == ParsePage(aw.body) IN
            IF page.err # "none"
            THEN \* json gave a value the loop cannot read: the exception leaves
                 \* the generator before anything of the page is yielded
                 /\ Fails(r, page.err)
                 /\ fut' = [fut EXCEPT ![r] = NoFuture]
                 /\ pagReads' = [pagReads EXCEPT ![r] = pagReads[r] + page.reads]
                 /\ UNCHANGED <<issued, users, lookups, puts, putResp, trail, derived>>
            ELSE
            LET got == users[r] \o page.items
                nextFuture == IF page.next # Null THEN EnsureFuture(page.next) ELSE NoFuture
            IN
            /\ pagReads' = [pagReads EXCEPT ![r] = pagReads[r] + page.reads]
            /\ users' = [users EXCEPT ![r] = got]
            /\ trail' = [trail EXCEPT ![r] = trail[r] \o PageEvents(fut[r].url, page)]
            /\ fut' = [fut EXCEPT ![r] = nextFuture]
            /\ issued' = [issued EXCEPT ![r] =
                   IF page.next # Null THEN Append(issued[r], page.next) ELSE issued[r]]
            /\ IF LoopContinues(nextFuture)
               THEN \* the run suspends at the next page's await
                    UNCHANGED <<pc, err, lookups, puts, putResp, derived>>
               ELSE \* the generator ends: handle_user(users_to_process, group_name)
                    LET d == HandleUserLoop(got, <<>>, <<>>) IN
                    /\ lookups' = [lookups EXCEPT ![r] = d.lookups]
                    /\ derived' = [derived EXCEPT ![r] = d.members]
                    /\ IF d.err # "none"
                       THEN /\ Fails(r, d.err)
                            /\ UNCHANGED <<puts, putResp>>
                       ELSE \E putOutcome \in PutOutcomes :
                            LET res == AddMembersResult(putOutcome) IN
                            /\ puts' = [puts EXCEPT ![r] =
                                   Append(puts[r], RequestBody(TRUE, d.members))]
                            /\ putResp' = [putResp EXCEPT ![r] = res.out]
                            /\ IF res.raised /\ ~HandleUserCatches("RequestException")
                               THEN Fails(r, "RequestException")
                               ELSE /\ pc' = [pc EXCEPT ![r] = "done"]
                                    /\ err' = err
    /\ UNCHANGED <<concurrency, hub, started, sem, fetchFailed, amIn, amOut>>

\* No run has been started yet.
NothingStarted ==
    /\ started = FALSE
    /\ pc = [r \in Runs |-> "idle"]
    /\ err = [r \in Runs |-> "none"]
    /\ sem = [r \in Runs |-> 0]
    /\ fut = [r \in Runs |-> NoFuture]
    /\ issued = [r \in Runs |-> <<>>]
    /\ users = [r \in Runs |-> <<>>]
    /\ lookups = [r \in Runs |-> <<>>]
    /\ puts = [r \in Runs |-> <<>>]
    /\ putResp = [r \in Runs |-> "none"]
    /\ pagReads = [r \in Runs |-> 0]
    /\ fetchFailed = [r \in Runs |-> FALSE]
    /\ trail = [r \in Runs |-> <<>>]
    /\ derived = [r \in Runs |-> <<>>]

\* The program in front of a hub whose answers leave the documented shapes.
InitMalformed ==
    /\ concurrency \in Concurrencies
    /\ hub \in MalformedHubs
    /\ NothingStarted
    /\ amIn = <<TRUE, <<>>>>
    /\ amOut = <<>>

Next ==
    \/ StartupCallback
    \/ TimerFires
    \/ \E r \in Runs : FetchAcquire(r)
    \/ \E r \in Runs : FetchComplete(r)
    \/ \E r \in Runs : PageStep(r)

Spec == Init /\ [][Next]_vars

SpecMalformed == InitMalformed /\ [][Next]_vars

\* ------------------------------------------------- add_members on its own

MemberLists == SeqsUpTo(Members, MaxMembers)

InitAddMembers ==
    /\ concurrency = DefaultConcurrency
    /\ hub = <<ListBody(<<>>)>>
    /\ started = FALSE
    /\ pc = [r \in Runs |-> "idle"]
    /\ err = [r \in Runs |-> "none"]
    /\ sem = [r \in Runs |-> 0]
    /\ fut = [r \in Runs |-> NoFuture]
    /\ issued = [r \in Runs |-> <<>>]
    /\ users = [r \in Runs |-> <<>>]
    /\ lookups = [r \in Runs |-> <<>>]
    /\ puts = [r \in Runs |-> <<>>]
    /\ putResp = [r \in Runs |-> "none"]
    /\ pagReads = [r \in Runs |-> 0]
    /\ fetchFailed = [r \in Runs |-> FALSE]
    /\ trail = [r \in Runs |-> <<>>]
    /\ derived = [r \in Runs |-> <<>>]
    /\ amIn \in BOOLEAN \X MemberLists
    /\ amOut = <<>>

\* add_members(base_uri, auth, group, replace_existing, members) builds its
\* request body.
CallAddMembers ==
    /\ amOut = <<>>
    /\ amOut' = <<RequestBody(amIn[1], amIn[2])>>
    /\ UNCHANGED <<amIn, runVars>>

NextAddMembers == CallAddMembers

SpecAddMembers == InitAddMembers /\ [][NextAddMembers]_vars

\* The scheduling of the event loop: a task that can take a slot takes it, a
\* fetch in flight ends (tornado's request_timeout bounds it), a run whose
\* awaited future is done resumes.
FairSpec ==
    /\ Spec
    /\ \A r \in Runs : WF_vars(FetchAcquire(r))
    /\ \A r \in Runs : WF_vars(FetchComplete(r))
    /\ \A r \in Runs : WF_vars(PageStep(r))

\* The program in front of any hub, one that keeps to the documented shapes
\* or one that leaves them.
InitAnyHub == Init \/ InitMalformed

\* The scheduling of the event loop as above, and the interval keeps
\* expiring: PeriodicCallback re-arms itself after every call of its
\* callback, whether the call returned or raised.
FairSched ==
    /\ InitAnyHub
    /\ [][Next]_vars
    /\ \A r \in Runs : WF_vars(FetchAcquire(r))
    /\ \A r \in Runs : WF_vars(FetchComplete(r))
    /\ \A r \in Runs : WF_vars(PageStep(r))
    /\ WF_vars(TimerFires)

\* ----------------------------------------------------------------- claims

RunEnded(r) == pc[r] \in {"done", "failed"}

\* The run's pagination went through: it ended and none of its fetches raised.
PagingComplete(r) == RunEnded(r) /\ ~fetchFailed[r]

\* C1: with a concurrency limit N >= 1, the fetches of a run that execute
\* client.fetch are never more than the slots taken from the run's semaphore,
\* which are never more than N; with N = 0 a fetch never waits for a slot.
C1_BoundedFetch ==
    \A r \in Runs :
        /\ concurrency >= 1 =>
              /\ sem[r] >= 0
              /\ Executing(r) <= concurrency - sem[r]
              /\ Executing(r) <= concurrency
        /\ concurrency = 0 => fut[r].st # "scheduled"

\* A run holds the only slot of a semaphore of one slot.
C1_Witness ==
    concurrency = 1 /\ Executing("startup") = 1 /\ sem["startup"] = 0

SlotsConserved ==
    \A r \in Runs :
        (pc[r] # "idle" /\ UseSemaphore(concurrency)) =>
            /\ sem[r] + Executing(r) = concurrency
            /\ (Executing(r) = 0 => sem[r] = concurrency)

\* C2: every slot taken is given back exactly once whatever the outcome of
\* client.fetch: in every state the free slots and the fetches in flight add
\* up to N, so with no fetch in flight all N slots are free; and a fetch that
\* waits for a slot is eventually admitted.
C2_NoSlotLeak ==
    /\ []SlotsConserved
    /\ \A r \in Runs : (fut[r].st = "scheduled") ~> (fut[r].st = "fetching")

\* A fetch timed out and the slot it held is free again.
C2_Witness ==
    \E r \in Runs :
        /\ concurrency = 1
        /\ fut[r].st = "done" /\ fut[r].outcome = "timeout"
        /\ sem[r] = 1

IsPaged ==
    \A i \in DOMAIN hub : hub[i].kind = "object" /\ hub[i].hasItems /\ hub[i].hasNext

\* C3: over a paginated result of k pages (next null on the last page only),
\* a run whose fetches all succeed has fetched exactly the k page URLs, in
\* page order, and collected exactly the items of the pages, page after page
\* and in each page's order.
C3_PaginatorYieldsAllPages ==
    \A r \in Runs :
        (IsPaged /\ PagingComplete(r)) =>
            /\ issued[r] = [i \in 1..Len(hub) |-> i]
            /\ users[r] = Flatten([i \in 1..Len(hub) |-> hub[i].items])
            /\ Len(users[r]) = SumLen([i \in 1..Len(hub) |-> hub[i].items])

\* Two pages, of two different records and of one record, were paged through.
C3_Witness ==
    \E r \in Runs :
        /\ IsPaged /\ PagingComplete(r)
        /\ Len(hub) = 2
        /\ hub[1].items = <<Bob, Alice>>
        /\ hub[2].items = <<Bob>>

\* C4: when the seed request is answered by a top-level list, the run fetches
\* once and never reads pagination metadata, and once the response is in, its
\* items are that list's elements in order.
C4_ListResponseYieldsList ==
    \A r \in Runs :
        hub[1].kind = "list" =>
            /\ Len(issued[r]) <= 1
            /\ pagReads[r] = 0
            /\ PagingComplete(r) => (issued[r] = <<1>> /\ users[r] = hub[1].items)

\* A list of three records was received.
C4_Witness ==
    \E r \in Runs :
        /\ hub[1].kind = "list" /\ PagingComplete(r)
        /\ users[r] = <<Alice, Bob, Alice>>

RECURSIVE NonAdmins(_)
NonAdmins(us) ==
    IF us = <<>> THEN <<>>
    ELSE IF Head(us).admin THEN NonAdmins(Tail(us))
         ELSE <<Head(us)>> \o NonAdmins(Tail(us))

\* C5: a run whose fetches all succeed ends with exactly one PUT, whose
\* subjectLookups hold one entry per fetched record that is no admin, in
\* record order.
C5_OnePutPerCycle ==
    \A r \in Runs :
        PagingComplete(r) =>
            /\ Len(puts[r]) = 1
            /\ Len(puts[r][1].subjectLookups) = Len(NonAdmins(users[r]))
            /\ \A i \in 1..Len(puts[r][1].subjectLookups) :
                   puts[r][1].subjectLookups[i].value
                       = LoginId(DetailOf(NonAdmins(users[r])[i]))

\* C6: get_user_info is never called for a record whose admin field is true,
\* and no body sent to the directory holds an identifier of such a record.
C6_AdminsNeverMembers ==
    \A r \in Runs :
        /\ \A i \in DOMAIN lookups[r] : ~lookups[r][i].admin
        /\ \A p \in DOMAIN puts[r] :
               \A j \in DOMAIN puts[r][p].subjectLookups :
                   \A u \in DOMAIN users[r] :
                       users[r][u].admin =>
                           puts[r][p].subjectLookups[j].value
                               # LoginId(DetailOf(users[r][u]))

\* handle_user went over an admin and then a record that is no admin.
C6_Witness ==
    \E r \in Runs :
        /\ RunEnded(r)
        /\ users[r] = <<Bob, Alice>>
        /\ lookups[r] = <<Alice>>

\* C7: in replace mode the body has replaceAllExisting = "T" and one
\* subject lookup per member, in the members' order, each carrying its
\* member; duplicates stay.
C7_BodyMirrorsMembers ==
    \A b \in DOMAIN amOut :
        amIn[1] =>
            /\ amOut[b].replaceAllExisting = "T"
            /\ Len(amOut[b].subjectLookups) = Len(amIn[2])
            /\ \A i \in DOMAIN amIn[2] : amOut[b].subjectLookups[i].value = amIn[2][i]

\* A body was built in replace mode for a list that names a member twice.
C7_Witness ==
    /\ amOut # <<>>
    /\ amIn[1]
    /\ Len(amIn[2]) = 2
    /\ amIn[2][1] = amIn[2][2]

\* Only letters and digits, and at least one.
PurelyAlphanumeric(member) ==
    /\ member.chars # <<>>
    /\ Range(member.chars) \subseteq (Letters \cup Digits)

\* C8 as stated: the key is subjectId exactly for the purely alphanumeric
\* identifiers.
C8_AlphanumericIsSubjectId ==
    \A b \in DOMAIN amOut :
        \A i \in DOMAIN amIn[2] :
            (amOut[b].subjectLookups[i].key = "subjectId") <=> PurelyAlphanumeric(amIn[2][i])

\* C8, amended: the key is subjectId exactly when the member is an int or a
\* non-empty string of letters only, and subjectIdentifier otherwise (also for
\* a string of digits and for a string that mixes letters and digits).
C8_LettersOrIntIsSubjectId ==
    \A b \in DOMAIN amOut :
        \A i \in DOMAIN amIn[2] :
            LET m == amIn[2][i]
                k == amOut[b].subjectLookups[i].key
            IN /\ k \in {"subjectId", "subjectIdentifier"}
               /\ (k = "subjectId") <=>
                      (m.isInt \/ (m.chars # <<>> /\ Range(m.chars) \subseteq Letters))

\* A body was built for "abc" and "abc123".
C8_Witness ==
    /\ amOut # <<>>
    /\ amIn[2] = <<Str(<<"a", "b", "c">>), Str(<<"a", "b", "c", "1", "2", "3">>)>>
    /\ amOut[1].subjectLookups[1].key = "subjectId"
    /\ amOut[1].subjectLookups[2].key = "subjectIdentifier"

\* C9: a directory result that holds WsRestResultProblem makes the run end as
\* a failure, a result without it makes it end as a success.
C9_ProblemFailsTheCycle ==
    \A r \in Runs :
        /\ putResp[r] = "problem" => pc[r] = "failed"
        /\ putResp[r] = "ok" => pc[r] = "done"

\* C10: once a page fetch of a run has timed out or failed, the run sends no
\* PUT, ends as failed when it resumes, and issues no further fetch (none is
\* waiting or in flight, and no URL was fetched twice).
C10_FetchFailureAborts ==
    \A r \in Runs :
        fetchFailed[r] =>
            /\ puts[r] = <<>>
            /\ pc[r] \in {"paging", "failed"}
            /\ fut[r].st \in {"done", "none"}
            /\ (pc[r] = "paging" => fut[r].outcome # "ok")
            /\ Cardinality(Range(issued[r])) = Len(issued[r])

\* The fetch of the second page failed after the first page's users were in.
C10_Witness ==
    \E r \in Runs :
        /\ fetchFailed[r] /\ pc[r] = "failed"
        /\ Len(issued[r]) = 2
        /\ users[r] # <<>>
        /\ puts[r] = <<>>

\* C11 as stated: a record without the admin key is skipped and the run goes
\* on.  Over a list whose other records are all admins (nothing else stands in
\* the run's way) the run ends with one PUT, of the empty member list those
\* admins leave.
C11_MissingFieldKeepsRunning ==
    \A r \in Runs :
        ( /\ hub[1].kind = "list"
          /\ \A i \in DOMAIN hub[1].items : hub[1].items[i] \in {Bob, Carol}
          /\ RunEnded(r) /\ ~fetchFailed[r] ) =>
              /\ err[r] # "KeyError: admin"
              /\ Len(puts[r]) = 1
              /\ puts[r][1].subjectLookups = <<>>

\* C12 as stated: at any moment at most one run of sync_users_to_groups is
\* under way.
C12_AtMostOneCycle ==
    ~(pc["startup"] = "paging" /\ pc["periodic"] = "paging")

\* C13: however a run ends (with the exception of a failed or timed-out
\* fetch, with the exception of a response that cannot be read, with an
\* exception of the derivation, with a problem reported by the directory, or
\* well), the timer stays armed: the end of a run is followed by a run that
\* the timer has started.
C13_FailedCycleIsFollowed ==
    \A r \in Runs : RunEnded(r) ~> (pc["periodic"] = "paging")
\* The startup run failed at a response without items after a page of
\* records, a run of the timer failed at a fetch, and the timer has started
\* its next run.
C13_Witness ==
    /\ pc["startup"] = "failed" /\ err["startup"] = "KeyError: items"
    /\ users["startup"] # <<>>
    /\ pc["periodic"] = "paging" /\ issued["periodic"] = <<1>>
    /\ fut["periodic"].st = "fetching"
\* A run of the timer ended with a problem reported by the directory.
C13_WitnessProblem ==
    /\ pc["startup"] = "failed" /\ fetchFailed["startup"]
    /\ pc["periodic"] = "done" /\ putResp["periodic"] = "problem"

\* C14: the first run is started by the loop's first callback and not by the
\* timer: no timer run exists before the startup run has begun, the startup
\* run submits its first request on the spot, and runs after it are the
\* timer's.
C14_StartupCycleFirst ==
    /\ started <=> pc["startup"] # "idle"
    /\ pc["periodic"] # "idle" => pc["startup"] # "idle"
    /\ pc["startup"] # "idle" =>
           /\ issued["startup"] # <<>>
           /\ issued["startup"][1] = 1
           /\ trail["startup"][1] = SubmitEvent(1)
C14_Witness ==
    /\ pc["startup"] = "done" /\ Len(puts["startup"]) = 1
    /\ pc["periodic"] = "done" /\ Len(puts["periodic"]) = 1

\* The run r has read the answer to its last request and was not stopped by
\* a failed fetch.
LastPageRead(r) ==
    /\ RunEnded(r)
    /\ ~fetchFailed[r]
    /\ issued[r] # <<>>

LastIssued(r) == hub[issued[r][Len(issued[r])]]

\* C15 as stated: a page that is an object with items and whose next pointer
\* is absent or null ends the pagination normally: its items are yielded
\* (after those of the pages before it), nothing more is fetched and
\* fetch_paginated raises nothing.
C15_AbsentOrNullNextEndsPaging ==
    \A r \in Runs :
        ( /\ LastPageRead(r)
          /\ LastIssued(r).kind = "object"
          /\ LastIssued(r).hasItems
          /\ (~LastIssued(r).hasNext \/ LastIssued(r).next = Null) ) =>
              /\ err[r] # "KeyError: next"
              /\ users[r] = Flatten([i \in DOMAIN issued[r] |-> hub[issued[r][i]].items])

\* A body that is neither a list nor an object with an items key.
BadShape(b) == ~(b.kind = "list") /\ ~(b.kind = "object" /\ b.hasItems)

\* C16: a response that is neither a list nor an object with items is fatal
\* to the run: once the run has read it the run has failed with the exception
\* of the read, no item of that response was yielded, it is the last request
\* of the run and the run sends no PUT.
C16_BadShapeIsFatal ==
    \A r \in Runs :
        \A i \in DOMAIN issued[r] :
            BadShape(hub[issued[r][i]]) =>
                /\ i = Len(issued[r])
                /\ puts[r] = <<>>
                /\ pc[r] \in {"paging", "failed"}
                /\ pc[r] = "paging" => fut[r].url = issued[r][i] /\ fut[r].st # "none"
                /\ (pc[r] = "failed" /\ ~fetchFailed[r]) =>
                       err[r] \in {"KeyError: items", "TypeError"}
                /\ \A k \in DOMAIN trail[r] :
                       trail[r][k].e = "yield" => trail[r][k].page # issued[r][i]
                /\ users[r] = Flatten([j \in 1..(i - 1) |-> hub[issued[r][j]].items])
C16_Witness ==
    /\ Len(hub) = 2
    /\ hub[1] = ObjectWithoutItems(2)
    /\ pc["startup"] = "failed" /\ err["startup"] = "KeyError: items"
    /\ issued["startup"] = <<1>>
    /\ pc["periodic"] = "failed" /\ err["periodic"] = "KeyError: items"

\* The yield events of page p in the trail of run r.
YieldsOf(r, p) ==
    {k \in DOMAIN trail[r] : trail[r][k].e = "yield" /\ trail[r][k].page = p}

\* C17: when page p carries a next pointer, the request for that next page is
\* submitted before the first item of page p is yielded; requests are
\* submitted in page order; items are yielded page by page, in the order they
\* have within their page.
C17_PrefetchBeforeYield ==
    \A r \in Runs :
        /\ \A k \in DOMAIN trail[r] :
               ( /\ trail[r][k].e = "yield"
                 /\ hub[trail[r][k].page].kind = "object"
                 /\ hub[trail[r][k].page].next # Null ) =>
                   \E j \in 1..(k - 1) :
                       trail[r][j] = SubmitEvent(hub[trail[r][k].page].next)
        /\ \A k, l \in DOMAIN trail[r] :
               (k < l /\ trail[r][k].e = "submit" /\ trail[r][l].e = "submit") =>
                   trail[r][k].page < trail[r][l].page
        /\ \A k, l \in DOMAIN trail[r] :
               (k < l /\ trail[r][k].e = "yield" /\ trail[r][l].e = "yield") =>
                   \/ trail[r][k].page < trail[r][l].page
                   \/ /\ trail[r][k].page = trail[r][l].page
                      /\ trail[r][k].pos < trail[r][l].pos
        /\ \A p \in DOMAIN hub :
               YieldsOf(r, p) # {} =>
                   /\ Cardinality(YieldsOf(r, p)) = Len(hub[p].items)
                   /\ \A k \in YieldsOf(r, p) :
                          users[r][Cardinality({m \in 1..k : trail[r][m].e = "yield"})]
                              = hub[p].items[trail[r][k].pos]
C17_Witness ==
    /\ Len(hub) = 2
    /\ pc["startup"] = "paging"
    /\ fut["startup"].url = 2
    /\ trail["startup"] = <<SubmitEvent(1), SubmitEvent(2)>> \o YieldEvents(1, hub[1].items)
    /\ Len(hub[1].items) >= 1

\* C18 as stated: with a cap N >= 1, the fetches in flight of all runs under
\* way, taken together, never exceed N.
C18_CapBoundsWholeProcess ==
    concurrency >= 1 =>
        Executing("startup") + Executing("periodic") <= concurrency

\* The fetches of run r that are outstanding: submitted and not yet awaited
\* to their end.
Outstanding(r) == IF fut[r].st \in {"none", "done"} THEN 0 ELSE 1

\* C20: a run has at most one fetch outstanding, whatever N: the only fetch
\* ever outstanding is the request of the page the loop awaits next; the
\* records are handled (lookups, member list) only once the pagination has
\* ended and no fetch is left, and the PUT is sent with no fetch in flight.
C20_OneFetchPerCycle ==
    \A r \in Runs :
        /\ Outstanding(r) <= 1
        /\ Executing(r) <= Outstanding(r)
        /\ fut[r].st # "none" =>
               /\ pc[r] = "paging"
               /\ fut[r].url = issued[r][Len(issued[r])]
        /\ (lookups[r] # <<>> \/ derived[r] # <<>> \/ puts[r] # <<>>) =>
               /\ fut[r].st = "none"
               /\ Executing(r) = 0
               /\ pc[r] \in {"done", "failed"}
        /\ pc[r] \in {"done", "failed"} => fut[r].st = "none"
C20_Witness ==
    /\ concurrency = DefaultConcurrency
    /\ Len(hub) = 2
    /\ pc["startup"] = "done" /\ Len(puts["startup"]) = 1
    /\ Len(issued["startup"]) = 2
    /\ pc["periodic"] = "paging" /\ Executing("periodic") = 1
    /\ Len(issued["periodic"]) = 2

====
